---- MODULE Spec2Model ----
(***************************************************************************)
(* Model of src/export_db.py: the SQLiteReaderApp window with its path     *)
(* field, its status label, and the execute_query handler that runs the    *)
(* fixed de-duplicating query over the TranslationHistory table.           *)
(*                                                                         *)
(* A text is a sequence of one-character strings.  A value of the Python   *)
(* side that may be None (or a local that was never bound) is a record     *)
(* [kind, text] with kind in {"unbound", "None", "str"}.                   *)
(***************************************************************************)
EXTENDS Integers, Sequences, FiniteSets, TLC

VARIABLES
    TranslationHistory, \* rows of the table in the database file
    HAS_PYPERCLIP,      \* module flag set at import time
    file_path_var,      \* text of the path entry
    status_var,         \* text of the status label
    conn,               \* connection of the latest invocation
    result,             \* local `result` of the latest invocation
    clipboard,          \* content of the system clipboard
    copy_call,          \* pyperclip.copy in the latest invocation
    notepad,            \* viewer launch in the latest invocation
    messagebox          \* error dialog shown in the latest invocation

vars == <<TranslationHistory, HAS_PYPERCLIP, file_path_var, status_var, conn,
          result, clipboard, copy_call, notepad, messagebox>>

----------------------------------------------------------------------------
(* Bounds *)

MaxLen == 2     \* longest SourceText
MaxId == 2      \* largest Id when the query is studied on its own
MaxAppId == 1   \* largest Id when the whole window is studied

Alphabet == {"a", "A", "b", "_"}

Texts == UNION {[1..n -> Alphabet] : n \in 0..MaxLen}

RowsOf(f) == {[Id |-> i, SourceText |-> f[i]] : i \in DOMAIN f}

\* the table holds any rows with distinct Ids up to maxId
TableWithin(table, maxId) ==
    \E S \in SUBSET (1..maxId) : \E f \in [S -> Texts] : table = RowsOf(f)

----------------------------------------------------------------------------
(* Python values *)

Unbound == [kind |-> "unbound", text |-> <<>>]
None == [kind |-> "None", text |-> <<>>]
Str(s) == [kind |-> "str", text |-> s]

\* truth value of `if result:`
Truthy(v) == v.kind = "str" /\ v.text # <<>>

----------------------------------------------------------------------------
(* The file system the path field refers to *)

DbPath == "translation_history.db"
TextPath == "notes.txt"
OtherDbPath == "other.db"
MissingPath == "missing.db"

ExistingPaths == {DbPath, TextPath, OtherDbPath}
TypedPaths == ExistingPaths \cup {MissingPath, ""}

os_path_exists_always(p) == TRUE

os_path_exists(p) == p \in ExistingPaths

\* what sqlite3.connect(p) followed by cursor.execute(sql_query) meets
FileKind(p) ==
    IF p = DbPath THEN "history"
    ELSE IF p = TextPath THEN "not_a_database"
    ELSE "no_table"   \* a database without the table; connect creates an
                      \* empty database when the path does not exist

----------------------------------------------------------------------------
(* The query *)

MinOf(S) == CHOOSE m \in S : \A x \in S : m <= x
MaxOf(S) == CHOOSE m \in S : \A x \in S : m >= x

FilteredTextsMax(table) ==
    {[SourceText |-> t,
      MinId |-> MaxOf({r.Id : r \in {q \in table : q.SourceText = t}})] :
        t \in {r.SourceText : r \in table}}

\* SELECT DISTINCT SourceText, MIN(Id) ... GROUP BY SourceText
FilteredTexts(table) ==
    {[SourceText |-> t,
      MinId |-> MinOf({r.Id : r \in {q \in table : q.SourceText = t}})] :
        t \in {r.SourceText : r \in table}}

\* the LIKE operator folds the case of ASCII letters
Fold(c) == CASE c = "A" -> "a" [] c = "B" -> "b" [] OTHER -> c

\* str LIKE pattern: % is any run of characters, _ is any one character
RECURSIVE like(_, _)
like(str, pattern) ==
    IF pattern = <<>> THEN str = <<>>
    ELSE IF Head(pattern) = "%"
         THEN like(str, Tail(pattern))
              \/ (str # <<>> /\ like(Tail(str), pattern))
    ELSE IF str = <<>> THEN FALSE
    ELSE IF Head(pattern) = "_" THEN like(Tail(str), Tail(pattern))
    ELSE Fold(Head(pattern)) = Fold(Head(str))
         /\ like(Tail(str), Tail(pattern))

\* WHERE NOT EXISTS (... FT2.SourceText != FT1.SourceText
\*                   AND FT2.SourceText LIKE '%' || FT1.SourceText || '%')
NonContainedTexts(ft) ==
    {FT1 \in ft :
        ~ \E FT2 \in ft :
            /\ FT2.SourceText # FT1.SourceText
            /\ like(FT2.SourceText, <<"%">> \o FT1.SourceText \o <<"%">>)}

RECURSIVE OrderByMinIdDesc(_)
OrderByMinIdDesc(nct) ==
    IF nct = {} THEN <<>>
    ELSE LET last == CHOOSE e \in nct : \A o \in nct : e.MinId >= o.MinId
         IN <<last.SourceText>> \o OrderByMinIdDesc(nct \ {last})

\* SELECT SourceText FROM NonContainedTexts ORDER BY MinId ASC
RECURSIVE OrderByMinId(_)
OrderByMinId(nct) ==
    IF nct = {} THEN <<>>
    ELSE LET first == CHOOSE e \in nct : \A o \in nct : e.MinId <= o.MinId
         IN <<first.SourceText>> \o OrderByMinId(nct \ {first})

\* group_concat(SourceText): NULL over no rows, else the comma-joined texts
RECURSIVE Concat(_)
Concat(rows) ==
    IF Len(rows) = 1 THEN rows[1]
    ELSE rows[1] \o <<",">> \o Concat(Tail(rows))

group_concat(rows) == IF rows = <<>> THEN None ELSE Str(Concat(rows))

sql_query(table) ==
    group_concat(OrderByMinId(NonContainedTexts(FilteredTexts(table))))

----------------------------------------------------------------------------
(* Status texts *)

SelectFirstMsg == "Please select a database file first."
NotFoundMsg(p) == "File not found: " \o p
NoResultsMsg == "Query executed but returned no results."
SuccessMsg(clipboard_msg) ==
    "Query executed successfully. " \o clipboard_msg \o "opened in Notepad."
ClipboardMsg == "Result copied to clipboard and "
SqliteErrorMsg(e) == "SQLite error: " \o e
ErrorMsg(e) == "Error: " \o e

NotADatabase == "file is not a database"
NoSuchTable == "no such table: TranslationHistory"
CopyFailure == "Pyperclip could not find a copy/paste mechanism for your system."
NotepadFailure == "Failed to open Notepad: [WinError 2] The system cannot find the file specified"

----------------------------------------------------------------------------
(* Initial states *)

InitWindow ==
    /\ file_path_var = ""
    /\ status_var = ""
    /\ conn = "unopened"
    /\ result = Unbound
    /\ clipboard = None
    /\ copy_call = "none"
    /\ notepad = Unbound
    /\ messagebox = ""

Init ==
    /\ TableWithin(TranslationHistory, MaxAppId)
    /\ HAS_PYPERCLIP \in BOOLEAN
    /\ InitWindow

----------------------------------------------------------------------------
(* Handlers *)

\* the file dialog returns an existing file, or "" when cancelled
browse_file(filename) ==
    /\ file_path_var' = IF filename # "" THEN filename ELSE file_path_var
    /\ UNCHANGED <<TranslationHistory, HAS_PYPERCLIP, status_var, conn,
                   result, clipboard, copy_call, notepad, messagebox>>

\* the user types a path into the entry bound to file_path_var
file_entry(text) ==
    /\ file_path_var' = text
    /\ file_path_var' # file_path_var
    /\ UNCHANGED <<TranslationHistory, HAS_PYPERCLIP, status_var, conn,
                   result, clipboard, copy_call, notepad, messagebox>>

\* open_in_notepad: the launch, and the dialog it shows when it fails
open_in_notepad(text, popen_raises) ==
    [notepad |-> IF popen_raises THEN [kind |-> "raised", text |-> text]
                 ELSE [kind |-> "launched", text |-> text],
     messagebox |-> IF popen_raises THEN NotepadFailure ELSE ""]

fetchone_appending ==
    IF result.kind = "str"
    THEN Str(result.text \o <<",">> \o sql_query(TranslationHistory).text)
    ELSE sql_query(TranslationHistory)

\* cursor.execute(sql_query); cursor.fetchone()[0]
fetchone == sql_query(TranslationHistory)

\* the SELECT writes nothing to the table
TableAfterQuery == TranslationHistory

execute_query(copy_raises, popen_raises) ==
    LET db_path == file_path_var IN
    /\ UNCHANGED <<HAS_PYPERCLIP, file_path_var>>
    /\ IF db_path = "" THEN
          /\ status_var' = SelectFirstMsg
          /\ conn' = "unopened"
          /\ result' = Unbound
          /\ copy_call' = "none"
          /\ notepad' = Unbound
          /\ messagebox' = ""
          /\ UNCHANGED <<TranslationHistory, clipboard>>
       ELSE IF ~os_path_exists(db_path) THEN
          /\ status_var' = NotFoundMsg(db_path)
          /\ conn' = "unopened"
          /\ result' = Unbound
          /\ copy_call' = "none"
          /\ notepad' = Unbound
          /\ messagebox' = ""
          /\ UNCHANGED <<TranslationHistory, clipboard>>
       ELSE IF FileKind(db_path) # "history" THEN
          \* cursor.execute raises sqlite3.Error; conn.close() is skipped
          /\ status_var' = SqliteErrorMsg(
                IF FileKind(db_path) = "not_a_database" THEN NotADatabase
                ELSE NoSuchTable)
          /\ conn' = "open"
          /\ result' = Unbound
          /\ copy_call' = "none"
          /\ notepad' = Unbound
          /\ messagebox' = ""
          /\ UNCHANGED <<TranslationHistory, clipboard>>
       ELSE
          /\ result' = fetchone
          /\ TranslationHistory' = TableAfterQuery
          /\ conn' = "closed"
          /\ IF ~Truthy(result') THEN
                /\ status_var' = NoResultsMsg
                /\ copy_call' = "none"
                /\ notepad' = Unbound
                /\ messagebox' = ""
                /\ UNCHANGED clipboard
             ELSE IF HAS_PYPERCLIP /\ copy_raises THEN
                \* pyperclip.copy raises; caught by `except Exception`
                /\ status_var' = ErrorMsg(CopyFailure)
                /\ copy_call' = "raised"
                /\ notepad' = Unbound
                /\ messagebox' = ""
                /\ UNCHANGED clipboard
             ELSE
                LET shown == open_in_notepad(result'.text, popen_raises) IN
                /\ copy_call' = IF HAS_PYPERCLIP THEN "done" ELSE "none"
                /\ clipboard' = IF HAS_PYPERCLIP THEN result' ELSE clipboard
                /\ notepad' = shown.notepad
                /\ messagebox' = shown.messagebox
                /\ status_var' = SuccessMsg(
                      IF HAS_PYPERCLIP THEN ClipboardMsg ELSE "")

Browse == \E filename \in ExistingPaths \cup {""} : browse_file(filename)

Type == \E text \in TypedPaths : file_entry(text)

Execute == \E copy_raises, popen_raises \in BOOLEAN :
              execute_query(copy_raises, popen_raises)

Next == Browse \/ Type \/ Execute

Spec == Init /\ [][Next]_vars

---------------------------------------------------------------------------------------------------------------------------------------------------
(* The query on its own: every table within MaxId, pyperclip installed,    *)
(* the database file chosen, the clipboard and the viewer working.         *)

InitQuery ==
    /\ TableWithin(TranslationHistory, MaxId)
    /\ HAS_PYPERCLIP = TRUE
    /\ file_path_var = DbPath
    /\ status_var = ""
    /\ conn = "unopened"
    /\ result = Unbound
    /\ clipboard = None
    /\ copy_call = "none"
    /\ notepad = Unbound
    /\ messagebox = ""

NextQuery == execute_query(FALSE, FALSE)

SpecQuery == InitQuery /\ [][NextQuery]_vars

----------------------------------------------------------------------------
(* Properties *)

Queried == result.kind # "unbound"

Distinct == FilteredTexts(TranslationHistory)
Surviving == NonContainedTexts(Distinct)

\* t occurs in u as a literal, case-sensitive run of characters
Contains(u, t) ==
    \E i \in 0..(Len(u) - Len(t)) : SubSeq(u, i + 1, i + Len(t)) = t

RECURSIVE CommaJoined(_, _)
CommaJoined(order, n) ==
    IF n = 0 THEN <<>>
    ELSE IF n = 1 THEN order[1].SourceText
    ELSE CommaJoined(order, n - 1) \o <<",">> \o order[n].SourceText

\* C1: once the query has run, a distinct text is missing from the texts
\* the query keeps if and only if some other distinct text contains it as
\* a literal, case-sensitive substring.
C1_AbsentIffLiterallyContained ==
    Queried =>
        \A T \in Distinct :
            (T \notin Surviving) <=>
                \E U \in Distinct :
                    /\ U.SourceText # T.SourceText
                    /\ Contains(U.SourceText, T.SourceText)

\* C2: when at least one text survives, the fetched string is the
\* surviving texts in strictly increasing order of first id, joined by
\* single commas with nothing before or after.
C2_JoinedInFirstIdOrder ==
    Queried =>
        LET kept == Surviving
            n == Cardinality(kept)
        IN kept # {} =>
              /\ result.kind = "str"
              /\ \E order \in [1..n -> kept] :
                    /\ \A i, j \in 1..n :
                          i < j => order[i].MinId < order[j].MinId
                    /\ result.text = CommaJoined(order, n)

\* rows 1 "b", 2 "a": both survive and "b" comes first
C2_Witness ==
    /\ TranslationHistory = {[Id |-> 1, SourceText |-> <<"b">>],
                             [Id |-> 2, SourceText |-> <<"a">>]}
    /\ result = Str(<<"b", ",", "a">>)

\* C3: once the query has run, its grouping step has yielded one entry per unique SourceText, each
\* with the minimum Id of the rows holding that text, and no two entries
\* share a first id.
C3_OneEntryPerTextWithMinId ==
    Queried =>
        LET entries == Distinct IN
        /\ Cardinality(entries)
             = Cardinality({r.SourceText : r \in TranslationHistory})
        /\ \A e \in entries :
              /\ \E r \in TranslationHistory :
                    r.SourceText = e.SourceText /\ r.Id = e.MinId
              /\ \A r \in TranslationHistory :
                    r.SourceText = e.SourceText => e.MinId <= r.Id
        /\ \A e1, e2 \in entries : e1 # e2 => e1.MinId # e2.MinId

\* rows 1 "a", 2 "a": one entry, first id 1, and the query has run
C3_Witness ==
    /\ TranslationHistory = {[Id |-> 1, SourceText |-> <<"a">>],
                             [Id |-> 2, SourceText |-> <<"a">>]}
    /\ Distinct = {[SourceText |-> <<"a">>, MinId |-> 1]}
    /\ result = Str(<<"a">>)

\* C4: after a query over an empty table the status is the no-results
\* message, and after a query over a table whose only text is the empty
\* string the status is a different one.
C4_EmptyTableDistinguished ==
    Queried =>
        /\ TranslationHistory = {} => status_var = NoResultsMsg
        /\ (TranslationHistory # {}
            /\ \A r \in TranslationHistory : r.SourceText = <<>>)
              => status_var # NoResultsMsg

\* C5: an invocation leaves the table and the path unchanged, and an
\* invocation that fetches a result after an earlier one did fetches the
\* same result.
C5_RepeatableOutput ==
    [][Execute =>
          /\ TranslationHistory' = TranslationHistory
          /\ file_path_var' = file_path_var
          /\ (Queried /\ result'.kind # "unbound") => result' = result]_vars

\* a second invocation: the clipboard still holds the first one's result
\* and this one's copy failed after fetching the same result
C5_Witness ==
    /\ Truthy(result)
    /\ clipboard = result
    /\ copy_call = "raised"

\* C6: an invocation with an empty path, or a path that does not exist,
\* sets the matching status and does nothing else: no connection, no
\* query, no clipboard copy, no viewer, path unchanged.
C6_NoFileNoQuery ==
    [][(Execute /\ file_path_var \notin ExistingPaths) =>
          /\ status_var' = IF file_path_var = "" THEN SelectFirstMsg
                           ELSE NotFoundMsg(file_path_var)
          /\ conn' = "unopened"
          /\ result' = Unbound
          /\ clipboard' = clipboard
          /\ copy_call' = "none"
          /\ notepad' = Unbound
          /\ messagebox' = ""
          /\ file_path_var' = file_path_var]_vars

\* a missing path was refused after an earlier successful copy
C6_Witness ==
    /\ file_path_var = MissingPath
    /\ status_var = NotFoundMsg(MissingPath)
    /\ conn = "unopened"
    /\ clipboard.kind = "str"

\* C7: after a non-empty result, a failed copy still lets the viewer be
\* attempted, a failed viewer launch still lets the copy be made, each
\* failure has its own notice, and the status is not an error status.
C7_IndependentSideEffects ==
    Truthy(result) =>
        /\ copy_call = "raised" =>
              /\ notepad.kind # "unbound"
              /\ status_var \in {SuccessMsg(""), SuccessMsg(ClipboardMsg)}
        /\ notepad.kind = "raised" =>
              /\ messagebox = NotepadFailure
              /\ HAS_PYPERCLIP => copy_call = "done"
              /\ status_var \in {SuccessMsg(""), SuccessMsg(ClipboardMsg)}

\* C8: the status is always one of: nothing yet, select a file first, file
\* not found, a database error, no results, or success; and the success
\* status mentions the clipboard only when the copy was made.
C8_StatusIsOneOfFive ==
    /\ status_var \in
          {"", SelectFirstMsg, NoResultsMsg, SuccessMsg(""),
           SuccessMsg(ClipboardMsg), SqliteErrorMsg(NotADatabase),
           SqliteErrorMsg(NoSuchTable)}
          \cup {NotFoundMsg(p) : p \in TypedPaths}
    /\ status_var = SuccessMsg(ClipboardMsg) => copy_call = "done"

\* C9: no connection is left open when the handler has returned.
C9_ConnectionReleased == conn # "open"

\* C10: once the query has run, every distinct text survives or matches
\* the containment test against a surviving text; so a table with a
\* non-empty text does not end in the no-results status.
C10_EveryTextCovered ==
    Queried =>
        /\ \A T \in Distinct :
              \/ T \in Surviving
              \/ \E S \in Surviving :
                    like(S.SourceText, <<"%">> \o T.SourceText \o <<"%">>)
        /\ (\E r \in TranslationHistory : r.SourceText # <<>>)
              => status_var # NoResultsMsg

====
